---- MODULE Spec2Model ----
(***************************************************************************)
(* A model of the IBP dashboard (src/app.py): the Dash callbacks           *)
(* render_page and approve_plan, the forecast engine run_forecast, and the *)
(* two tables they read.                                                   *)
(*                                                                         *)
(* Numbers.  The program computes with numpy float64.  A number is         *)
(* modelled as a pair <<n, d>> of integers with d >= 0, in lowest terms:   *)
(*   d > 0           the rational n/d                                      *)
(*   <<1, 0>>        +inf     <<-1, 0>>  -inf     <<0, 0>>   NaN           *)
(* so that a division by zero gives what numpy gives (x/0 = inf, 0/0 =     *)
(* NaN, with a warning and no exception).  Rounding error of the binary    *)
(* representation is not modelled: finite results are exact.               *)
(***************************************************************************)
EXTENDS Integers, Sequences, FiniteSets, TLC

\* ------------------------------------------------------------- bounds
\* The most rows of historical_sales a product has.
MaxHist == 3
\* The most clicks a button of the approval view receives.
MaxClicks == 2

\* ------------------------------------------------------------ numbers
Abs(i) == IF i < 0 THEN -i ELSE i

RECURSIVE GCD(_, _)
GCD(a, b) == IF b = 0 THEN a ELSE GCD(b, a % b)

\* The pair in lowest terms, with the sign carried by the numerator.
Norm(x) ==
    LET g == GCD(Abs(x[1]), Abs(x[2]))
    IN  IF g = 0 THEN <<0, 0>>
        ELSE IF x[2] < 0 THEN <<-(x[1] \div g), -(x[2] \div g)>>
        ELSE <<x[1] \div g, x[2] \div g>>

Num(i) == <<i, 1>>
NaN == <<0, 0>>
IsNaN(x) == x = NaN
IsFinite(x) == x[2] > 0

\* x < y as Python compares floats: every comparison with NaN is False.
Lt(x, y) == ~IsNaN(x) /\ ~IsNaN(y) /\ x[1] * y[2] < y[1] * x[2]
Le(x, y) == ~IsNaN(x) /\ ~IsNaN(y) /\ (x = y \/ Lt(x, y))

\* Python's builtin min(a, b) and max(a, b): the first argument unless the
\* second compares strictly smaller (larger).
PyMin(a, b) == IF Lt(b, a) THEN b ELSE a
PyMax(a, b) == IF Lt(a, b) THEN b ELSE a

Mul(x, y) ==
    LET a == Norm(x)
        b == Norm(y)
        g1 == GCD(Abs(a[1]), b[2])
        g2 == GCD(Abs(b[1]), a[2])
    IN  IF IsNaN(a) \/ IsNaN(b) THEN NaN
        ELSE IF g1 = 0 \/ g2 = 0 THEN Norm(<<a[1] * b[1], 0>>)
        ELSE Norm(<<(a[1] \div g1) * (b[1] \div g2), (a[2] \div g2) * (b[2] \div g1)>>)

\* x / y in float64: a zero divisor gives inf or NaN, never an exception.
Div(x, y) ==
    IF IsNaN(x) \/ IsNaN(y) THEN NaN
    ELSE IF y[1] < 0 THEN Mul(x, <<-y[2], -y[1]>>)
    ELSE IF y[1] = 0 THEN Norm(<<x[1], 0>>)
    ELSE Mul(x, <<y[2], y[1]>>)

Add(x, y) ==
    IF IsNaN(x) \/ IsNaN(y) THEN NaN
    ELSE IF x[2] = 0 /\ y[2] = 0 THEN (IF x = y THEN x ELSE NaN)
    ELSE IF x[2] = 0 THEN x
    ELSE IF y[2] = 0 THEN y
    ELSE Norm(<<x[1] * y[2] + y[1] * x[2], x[2] * y[2]>>)

Neg(x) == <<-x[1], x[2]>>
Sub(x, y) == Add(x, Neg(y))

RECURSIVE Pow10(_)
Pow10(k) == IF k = 0 THEN 1 ELSE 10 * Pow10(k - 1)

\* The integer nearest to the rational n/d (d > 0), halves to the even one.
Rint(n, d) ==
    LET q == n \div d
        r == n % d
    IN  IF 2 * r < d THEN q
        ELSE IF 2 * r > d THEN q + 1
        ELSE IF q % 2 = 0 THEN q ELSE q + 1

\* round(x, k) of a float64: inf and NaN round to themselves.
Round(x, k) ==
    IF ~IsFinite(x) THEN x
    ELSE LET m == Mul(x, Num(Pow10(k)))
         IN  Norm(<<Rint(m[1], m[2]), Pow10(k)>>)

\* floor(sqrt(m)) of a natural number.
RECURSIVE Isqrt(_)
Isqrt(m) ==
    IF m < 2 THEN m
    ELSE LET s == 2 * Isqrt(m \div 4)
         IN  IF (s + 1) * (s + 1) <= m THEN s + 1 ELSE s

\* round(sqrt(sq), k) for a number given by its square sq >= 0: with
\* u = floor(2 * 10^k * sqrt(sq)), the nearest integer to 10^k * sqrt(sq) is
\* u/2 for even u and (u+1)/2 for odd u, an exact half going to the even one.
RoundSqrt(sq, k) ==
    IF ~IsFinite(sq) THEN sq
    ELSE LET m == Mul(sq, Num(4 * Pow10(k) * Pow10(k)))
             u == Isqrt(m[1] \div m[2])
             q == u \div 2
             tie == m[2] = 1 /\ u * u = m[1]
             t == IF u % 2 = 0 THEN q
                  ELSE IF tie /\ q % 2 = 0 THEN q
                  ELSE q + 1
         IN  Norm(<<t, Pow10(k)>>)

\* ----------------------------------------------------------- database
\* The product codes the tables may hold, in the order of ORDER BY
\* product_code.
ProductCodes == <<"A1", "B2">>
OpeningInventories == {0, 100}
MonthlyCapacities == {0, 50}
UnitCosts == {2}
QtyValues == {0, 40, 50, 60}

CodeSet == {ProductCodes[i] : i \in 1..Len(ProductCodes)}

ProductRows ==
    [product_code : CodeSet, opening_inventory : OpeningInventories,
     monthly_capacity : MonthlyCapacities, unit_cost : UnitCosts]

\* The qty column of one product's rows of historical_sales in month order.
\* No computation of the program depends on the order of the quantities
\* (the libraries that read the series are external and their results are
\* chosen freely below), so one order stands for all its permutations.
Histories ==
    UNION {{h \in [1..n -> QtyValues] : \A i \in 1..(n - 1) : h[i] <= h[i + 1]} : n \in 0..MaxHist}

VARIABLES
    HAS_SES, HAS_RF, HAS_XGB,   \* the optional imports that succeeded
    ROLE,                       \* os.environ.get("IBP_ROLE", "planner")
    products,                   \* table products: code -> row
    historical_sales,           \* table historical_sales: code -> qty by month
    pathname,                   \* dcc.Location(id="url").pathname
    page_content,               \* children of html.Div(id="page-content")
    raised,                     \* what the last render_page raised, "" if it returned
    approved,                   \* dcc.Store(id="approved").data
    approval_status,            \* children of html.Div(id="approval-status")
    approve_n_clicks,           \* n_clicks of Button(id="approve"), 0 for None
    reject_n_clicks,            \* n_clicks of Button(id="reject"), 0 for None
    queued                      \* approve_plan is queued for the inserted buttons

config == <<HAS_SES, HAS_RF, HAS_XGB, ROLE>>
database == <<products, historical_sales>>
vars == <<HAS_SES, HAS_RF, HAS_XGB, ROLE, products, historical_sales, pathname,
          page_content, raised, approved, approval_status, approve_n_clicks,
          reject_n_clicks, queued>>

\* SELECT * FROM products ORDER BY product_code
load_products ==
    LET present == SelectSeq(ProductCodes, LAMBDA c : c \in DOMAIN products)
    IN  [i \in 1..Len(present) |-> products[present[i]]]

\* SELECT * FROM historical_sales WHERE product_code=%s ORDER BY month
load_history(product) == historical_sales[product]

\* ------------------------------------------------------------- series
RECURSIVE Sum(_)
Sum(h) == IF h = <<>> THEN 0 ELSE h[1] + Sum(Tail(h))

RECURSIVE SumSq(_)
SumSq(h) == IF h = <<>> THEN 0 ELSE h[1] * h[1] + SumSq(Tail(h))

\* Series.mean()
Mean(h) == Norm(<<Sum(h), Len(h)>>)

\* The square of Series.std() (ddof=1): sum((x - mean)^2) / (n - 1), which
\* is 0/0 = NaN for a series of one value.
StdSquared(h) ==
    Norm(<<Len(h) * SumSq(h) - Sum(h) * Sum(h), Len(h) * (Len(h) - 1)>>)

\* ---------------------------------------------------- forecast engine
Models == <<"SES", "RandomForest", "XGBoost">>
ModelSet == {Models[i] : i \in 1..Len(Models)}
ForecastValues == {50}
MapeValues == {0, 5}

\* What the external libraries return for a series: for each strategy a
\* one-step forecast and the in-sample MAPE of its fitted values.
LibraryResults == [ModelSet -> [Forecast : ForecastValues, MAPE : MapeValues]]

Available(m) ==
    CASE m = "SES" -> HAS_SES
      [] m = "RandomForest" -> HAS_RF
      [] m = "XGBoost" -> HAS_XGB

\* The list `results` after the three if-blocks, when none of them raises.
Results(lib) ==
    LET run == SelectSeq(Models, Available)
    IN  [i \in 1..Len(run) |->
            [Model |-> run[i], Forecast |-> lib[run[i]].Forecast, MAPE |-> lib[run[i]].MAPE]]

\* df.sort_values("MAPE"): the default kind is quicksort, which pandas and
\* numpy document as not stable, so every ordering of df by ascending MAPE
\* is a possible result; rows of equal MAPE come in any order.
SortValues(df) ==
    {[i \in 1..Len(df) |-> df[perm[i]]] :
        perm \in {q \in [1..Len(df) -> 1..Len(df)] :
                    /\ \A i, j \in 1..Len(df) : i # j => q[i] # q[j]
                    /\ \A i \in 1..(Len(df) - 1) : df[q[i]].MAPE <= df[q[i + 1]].MAPE}}

\* mean_absolute_percentage_error is bound by the try-block that sets HAS_RF
\* (lines 15-20) and by nothing else.
MapeImported == HAS_RF

\* run_forecast(series): `lib` and `sorted` are the library results and the
\* ordering sort_values returns.  raised = "" when it returns (df, best).
run_forecast(series, lib, sorted) ==
    IF HAS_SES /\ ~MapeImported THEN
        [raised |-> "NameError", df |-> <<>>, best |-> <<>>]    \* line 89
    ELSE IF HAS_XGB /\ ~MapeImported THEN
        [raised |-> "NameError", df |-> <<>>, best |-> <<>>]    \* line 105
    ELSE IF sorted = <<>> THEN
        [raised |-> "IndexError", df |-> <<>>, best |-> <<>>]   \* line 109, iloc[0]
    ELSE
        [raised |-> "", df |-> Results(lib), best |-> <<sorted[1]>>]

\* -------------------------------------------------------------- views
View(name, rows, text, best) == [view |-> name, rows |-> rows, text |-> text, best |-> best]
Returns(children) == [raised |-> "", children |-> children]
Raises(exception) == [raised |-> exception, children |-> View("", <<>>, "", <<>>)]

NoContent == View("None", <<>>, "", <<>>)
UploadFirst == "Upload historical sales first"
ManagersOnly == "Only managers can approve plans"
Welcome == "Welcome to IBP"

\* The products that get past `if hist.empty: continue`, in table order.
WithHistory == SelectSeq(load_products, LAMBDA p : load_history(p.product_code) # <<>>)

\* lines 121-129
ProductsPage == Returns(View("ProductMaster", load_products, "", <<>>))

\* lines 132-149
ForecastPage(lib, sorted) ==
    IF load_products = <<>> THEN Raises("IndexError")          \* products.iloc[0]
    ELSE LET hist == load_history(load_products[1].product_code)
             fc == run_forecast(hist, lib, sorted)
         IN  IF hist = <<>> THEN Returns(View("Message", <<>>, UploadFirst, <<>>))
             ELSE IF fc.raised # "" THEN Raises(fc.raised)
             ELSE Returns(View("Forecast", fc.df, "", fc.best))

\* The turns without the floor of the denominator at 1.
InventoryTurnsUnfloored(avg, inv) == Div(Mul(avg, Num(12)), inv)

\* line 165
InventoryTurns(avg, inv) == Div(Mul(avg, Num(12)), PyMax(inv, Num(1)))

\* lines 159-172: one row of the inventory table.  The standard deviation
\* and the safety stock are carried by their squares (1.65^2 = 1089/400).
InventoryRow(p, hist) ==
    LET avg == Mean(hist)
        std2 == StdSquared(hist)
        safety2 == Mul(std2, <<1089, 400>>)
        inv == Num(p.opening_inventory)
        prod == PyMin(avg, Num(p.monthly_capacity))
        end_inv == Sub(Add(inv, prod), avg)
        turns == InventoryTurns(avg, inv)
    IN  [Product |-> p.product_code,
         SafetyStock |-> RoundSqrt(safety2, 1),
         EndingInventory |-> Round(end_inv, 1),
         InventoryTurns |-> Round(turns, 2)]

\* A DataTable of `rows` whose columns are the keys of rows[0].
DataTable(name, rows) ==
    IF rows = <<>> THEN Raises("IndexError") ELSE Returns(View(name, rows, "", <<>>))

\* lines 152-177
InventoryPage ==
    DataTable("Inventory",
        [i \in 1..Len(WithHistory) |->
            InventoryRow(WithHistory[i], load_history(WithHistory[i].product_code))])

\* line 188
Scenarios ==
    <<[label |-> "Base", f |-> <<1, 1>>],
      [label |-> "+10%", f |-> <<11, 10>>],
      [label |-> "-10%", f |-> <<9, 10>>]>>

\* lines 189-199: one row of the scenario table.
ScenarioRow(p, base, s) ==
    LET demand == Mul(base, s.f)
        service == PyMin(Div(Num(p.monthly_capacity), demand), Num(1))
        value == Num(p.unit_cost * p.opening_inventory)
    IN  [Product |-> p.product_code,
         Scenario |-> s.label,
         Demand |-> Round(demand, 1),
         ServiceLevel |-> Round(Mul(service, Num(100)), 1),
         InventoryValue |-> Round(value, 1)]

\* lines 180-204
ScenariosPage ==
    DataTable("Scenarios",
        [i \in 1..(Len(WithHistory) * Len(Scenarios)) |->
            LET p == WithHistory[((i - 1) \div Len(Scenarios)) + 1]
                s == Scenarios[((i - 1) % Len(Scenarios)) + 1]
            IN  ScenarioRow(p, Mean(load_history(p.product_code)), s)])

\* lines 214-222: one row of the portfolio table.
PortfolioRow(p, hist) ==
    LET annual == Num(Sum(hist))
        util == Div(annual, Num(p.monthly_capacity * 12))
    IN  [Product |-> p.product_code,
         AnnualDemand |-> annual,
         CapacityUtil |-> Round(Mul(util, Num(100)), 1),
         InventoryValue |-> Num(p.opening_inventory * p.unit_cost)]

\* lines 207-227
PortfolioPage ==
    DataTable("Portfolio",
        [i \in 1..Len(WithHistory) |->
            PortfolioRow(WithHistory[i], load_history(WithHistory[i].product_code))])

\* The approval branch without the test of ROLE.
MayApproveAnyRole == TRUE

\* line 231
MayApprove == ROLE = "manager"

\* lines 230-239
ApprovalPage ==
    IF ~MayApprove THEN Returns(View("Message", <<>>, ManagersOnly, <<>>))
    ELSE Returns(View("Approval", <<>>, "", <<>>))

\* line 241: what every other path gets.
FallThrough == Returns(View("Home", <<>>, Welcome, <<>>))

\* render_page(path, approved), lines 116-241.
render_page(path, lib, sorted) ==
    CASE path = "/products" -> ProductsPage
      [] path = "/forecast" -> ForecastPage(lib, sorted)
      [] path = "/inventory" -> InventoryPage
      [] path = "/scenarios" -> ScenariosPage
      [] path = "/portfolio" -> PortfolioPage
      [] path = "/approval" -> ApprovalPage
      [] OTHER -> FallThrough

\* approve_plan(a, r), lines 251-256; a count of 0 stands for None too, and
\* the messages are written without their leading emoji.
approve_plan(a, r) ==
    IF a # 0 THEN <<TRUE, "Plan Approved">>
    ELSE IF r # 0 THEN <<FALSE, "Plan Rejected">>
    ELSE <<FALSE, "">>

\* ------------------------------------------------------ state machine
\* The documented routes and two paths outside them.
Routes == {"/", "/products", "/history", "/forecast", "/inventory", "/scenarios",
           "/portfolio", "/approval"}
Paths == Routes \cup {"/nope"}
Roles == {"planner", "manager"}

\* The product tables over the given rows, and the sales tables in which
\* the first product code has any history and the others a brief one.
ProductTables(rows) ==
    UNION {{t \in [S -> rows] : \A c \in S : t[c].product_code = c} : S \in SUBSET CodeSet}
BriefHistories == {h \in Histories : Len(h) <= 1}
SalesTables(codes) ==
    {t \in [codes -> Histories] : \A c \in codes : c = ProductCodes[1] \/ t[c] \in BriefHistories}

\* The product of the documented example: opening 100, capacity 50, cost 2.
ExampleRows == {r \in ProductRows : r.opening_inventory = 100 /\ r.monthly_capacity = 50}

\* The bounded deployments.  Data: every product table, the first product
\* with any history; all libraries imported and the default role.
\* Libraries: every combination of imports and role, over the tables of the
\* example products in which each history has at most one record.
DataDeployment ==
    /\ HAS_SES = TRUE /\ HAS_RF = TRUE /\ HAS_XGB = TRUE
    /\ ROLE = "planner"
    /\ products \in ProductTables(ProductRows)
    /\ historical_sales \in SalesTables(DOMAIN products)

LibraryDeployment ==
    /\ HAS_SES \in BOOLEAN /\ HAS_RF \in BOOLEAN /\ HAS_XGB \in BOOLEAN
    /\ ROLE \in Roles
    /\ products \in ProductTables(ExampleRows)
    /\ historical_sales \in [DOMAIN products -> BriefHistories]

\* The process has started (imports and ROLE are fixed), the tables hold
\* their rows, historical_sales only for products of the product table, and
\* the layout is built: page-content is empty, the store holds False.
Init ==
    /\ DataDeployment \/ LibraryDeployment
    /\ pathname = ""
    /\ page_content = NoContent
    /\ raised = ""
    /\ approved = FALSE
    /\ approval_status = ""
    /\ approve_n_clicks = 0
    /\ reject_n_clicks = 0
    /\ queued = FALSE

\* The buttons and the status Div of the approval view are in the page.
ButtonsRendered == page_content.view = "Approval"

NoLibrary == [m \in ModelSet |-> [Forecast |-> 0, MAPE |-> 0]]

\* What the libraries and sort_values return during one call of
\* render_page: they are called on the forecast path only.
LibraryCalls(path) ==
    IF path = "/forecast"
    THEN UNION {{<<lib, sorted>> : sorted \in SortValues(Results(lib))} : lib \in LibraryResults}
    ELSE {<<NoLibrary, <<>>>>}

\* The location changes to `path` and Dash calls render_page.  When it
\* returns, the children of page-content are replaced: buttons of a former
\* approval view are gone, those of a new one have n_clicks None.  Dash then
\* queues approve_plan for the inserted buttons: prevent_initial_call does
\* not hold a callback back when its inputs are inserted by another callback
\* and one of its outputs (the store, in the top-level layout) is not
\* inserted with them.  When render_page raises, Dash answers 500 and leaves
\* the page as it is.
Navigate(path) ==
    /\ path # pathname
    /\ \E r \in {render_page(path, call[1], call[2]) : call \in LibraryCalls(path)} :
        /\ pathname' = path
        /\ raised' = r.raised
        /\ IF r.raised = ""
           THEN /\ page_content' = r.children
                /\ approval_status' = ""
                /\ approve_n_clicks' = 0
                /\ reject_n_clicks' = 0
                /\ queued' = (r.children.view = "Approval")
           ELSE UNCHANGED <<page_content, approval_status, approve_n_clicks,
                            reject_n_clicks, queued>>
    /\ UNCHANGED <<config, database, approved>>

\* Dash calls approve_plan with the current n_clicks of both buttons.
CallApprovePlan(a, r) ==
    /\ approved' = approve_plan(a, r)[1]
    /\ approval_status' = approve_plan(a, r)[2]
    /\ UNCHANGED raised

\* The queued call for the inserted buttons.
LayoutCall ==
    /\ queued
    /\ ButtonsRendered
    /\ CallApprovePlan(approve_n_clicks, reject_n_clicks)
    /\ queued' = FALSE
    /\ UNCHANGED <<config, database, pathname, page_content, approve_n_clicks, reject_n_clicks>>

ClickApprove ==
    /\ ButtonsRendered
    /\ approve_n_clicks < MaxClicks
    /\ approve_n_clicks' = approve_n_clicks + 1
    /\ CallApprovePlan(approve_n_clicks + 1, reject_n_clicks)
    /\ UNCHANGED <<config, database, pathname, page_content, reject_n_clicks, queued>>

ClickReject ==
    /\ ButtonsRendered
    /\ reject_n_clicks < MaxClicks
    /\ reject_n_clicks' = reject_n_clicks + 1
    /\ CallApprovePlan(approve_n_clicks, reject_n_clicks + 1)
    /\ UNCHANGED <<config, database, pathname, page_content, approve_n_clicks, queued>>

Next ==
    \/ \E path \in Paths : Navigate(path)
    \/ LayoutCall
    \/ ClickApprove
    \/ ClickReject

Spec == Init /\ [][Next]_vars

\* -------------------------------------------------------------- claims
KpiPaths == {"/inventory", "/scenarios", "/portfolio"}
KpiView(path) ==
    CASE path = "/inventory" -> "Inventory"
      [] path = "/scenarios" -> "Scenarios"
      [] path = "/portfolio" -> "Portfolio"
HistoryCodes == {c \in DOMAIN products : historical_sales[c] # <<>>}
RowIndex == DOMAIN page_content.rows
\* render_page has returned for the current path: page_content is its view.
Rendered(path) == pathname = path /\ raised = ""

\* C1: on /forecast, /inventory, /scenarios and /portfolio render_page
\* returns a view for every database state and never raises.
C1_NoDataIsNotAnError ==
    pathname \in KpiPaths \cup {"/forecast"} => raised = ""

\* C2: the rows of the Inventory, Scenario and Portfolio views are exactly
\* the products with at least one sales record, for every database state;
\* the Scenario view has one row per (product with history, label) pair.
C2_RowsAreProductsWithHistory ==
    pathname \in KpiPaths =>
        /\ raised = ""
        /\ page_content.view = KpiView(pathname)
        /\ {page_content.rows[i].Product : i \in RowIndex} = HistoryCodes
        /\ pathname # "/scenarios" => Len(page_content.rows) = Cardinality(HistoryCodes)
        /\ pathname = "/scenarios" =>
              /\ Len(page_content.rows) = 3 * Cardinality(HistoryCodes)
              /\ \A c \in HistoryCodes : \A l \in {"Base", "+10%", "-10%"} :
                    \E i \in RowIndex : /\ page_content.rows[i].Product = c
                                        /\ page_content.rows[i].Scenario = l

\* C2, where the view is rendered: the same statement for the database
\* states in which some product has history.
C2_RowsWhenRendered ==
    (pathname \in KpiPaths /\ HistoryCodes # {}) => C2_RowsAreProductsWithHistory

\* The first product has history, so the forecast page calls run_forecast.
ForecastRuns ==
    /\ pathname = "/forecast"
    /\ load_products # <<>>
    /\ load_history(load_products[1].product_code) # <<>>

\* C3: for every combination of HAS_SES, HAS_RF, HAS_XGB and every non-empty
\* series run_forecast returns, with exactly one result for each available
\* strategy and none for an unavailable one.
C3_LibraryUnavailabilityTolerated ==
    ForecastRuns =>
        /\ raised = ""
        /\ [i \in RowIndex |-> page_content.rows[i].Model] = SelectSeq(Models, Available)

ModelRank(m) == CHOOSE i \in 1..Len(Models) : Models[i] = m

C4_BestIsLeastError ==
    (ForecastRuns /\ raised = "") =>
        /\ \E i \in RowIndex : page_content.rows[i] = page_content.best[1]
        /\ \A i \in RowIndex : page_content.best[1].MAPE <= page_content.rows[i].MAPE

\* C5: for a path that is none of the documented routes render_page returns
\* a NotFound view, which is not the view of the home route "/".
C5_UnknownPathIsNotFound ==
    (pathname # "" /\ pathname \notin Routes) =>
        /\ raised = ""
        /\ page_content # render_page("/", NoLibrary, <<>>).children

\* C6: for every non-empty series, also of one record, the safety stock of
\* the Inventory view is a defined number >= 0.
C6_SafetyStockDefined ==
    Rendered("/inventory") =>
        \A i \in RowIndex :
            /\ IsFinite(page_content.rows[i].SafetyStock)
            /\ page_content.rows[i].SafetyStock[1] >= 0

\* The row of the Inventory view for a product with `hist`: the turns are
\* 12 * sum / (n * max(opening, 1)) to two decimals, and the ending inventory
\* is opening + min(avg, capacity) - avg to one decimal.
TurnsAndEndingAsSpecified(row, p, hist) ==
    LET n == Len(hist)
        total == Sum(hist)
        den == IF p.opening_inventory >= 1 THEN p.opening_inventory ELSE 1
        produced == IF total <= p.monthly_capacity * n THEN total ELSE p.monthly_capacity * n
        ending == p.opening_inventory * n + produced - total
        t == row.InventoryTurns
        e == row.EndingInventory
    IN  /\ IsFinite(t)
        /\ 200 * Abs(t[1] * n * den - 12 * total * t[2]) <= t[2] * n * den
        /\ IsFinite(e)
        /\ 20 * Abs(e[1] * n - ending * e[2]) <= e[2] * n

\* C7: for every product with history the Inventory view is rendered without
\* a division error, inventory_turns is average_demand * 12 /
\* max(opening_inventory, 1) and ending_inventory is opening_inventory +
\* min(average_demand, monthly_capacity) - average_demand; opening 100,
\* capacity 50, history [40,50,60] gives ending 100 and turns 6.0.
C7_InventoryTurnsFloored ==
    (pathname = "/inventory" /\ HistoryCodes # {}) =>
        /\ raised = ""
        /\ Len(page_content.rows) = Len(WithHistory)
        /\ \A i \in RowIndex :
              LET p == WithHistory[i]
                  hist == historical_sales[p.product_code]
                  row == page_content.rows[i]
              IN  /\ row.Product = p.product_code
                  /\ TurnsAndEndingAsSpecified(row, p, hist)
                  /\ (p.opening_inventory = 100 /\ p.monthly_capacity = 50
                        /\ hist = <<40, 50, 60>>) =>
                       (row.InventoryTurns = <<6, 1>> /\ row.EndingInventory = <<100, 1>>)

\* C7 witness: the Inventory view shows the documented example beside a
\* product that opens with no inventory and has demand.
C7_Witness ==
    /\ Rendered("/inventory")
    /\ page_content.view = "Inventory"
    /\ DOMAIN products = {"A1", "B2"}
    /\ products["A1"].opening_inventory = 100
    /\ products["A1"].monthly_capacity = 50
    /\ historical_sales["A1"] = <<40, 50, 60>>
    /\ products["B2"].opening_inventory = 0
    /\ historical_sales["B2"] = <<50>>
    /\ page_content.rows[2].InventoryTurns = <<600, 1>>

\* C8: every scenario row has a service level of at most 100 percent and
\* the inventory value opening_inventory * unit_cost; the Base row has the
\* unscaled average demand and the service level min(capacity / avg, 1).
C8_ScenarioBaseReproducesKpi ==
    (pathname = "/scenarios" /\ HistoryCodes # {}) =>
        /\ raised = ""
        /\ \A i \in RowIndex :
              LET row == page_content.rows[i]
                  p == products[row.Product]
                  hist == historical_sales[row.Product]
              IN  /\ Le(row.ServiceLevel, Num(100))
                  /\ row.InventoryValue = Num(p.opening_inventory * p.unit_cost)
                  /\ row.Scenario = "Base" =>
                        /\ row.Demand = Round(<<Sum(hist), Len(hist)>>, 1)
                        /\ row.ServiceLevel =
                              IF p.monthly_capacity * Len(hist) >= Sum(hist)
                              THEN Num(100)
                              ELSE Round(<<100 * p.monthly_capacity * Len(hist), Sum(hist)>>, 1)

\* C9: when ROLE is not "manager" the approval path shows only the refusal,
\* the buttons are never in the page and the store keeps False; the buttons
\* are in the page only for a manager.
C9_ApprovalGatedByRole ==
    /\ ROLE # "manager" =>
          /\ approved = FALSE
          /\ ~ButtonsRendered
          /\ pathname = "/approval" =>
                (raised = "" /\ page_content.view = "Message" /\ page_content.text = ManagersOnly)
    /\ ButtonsRendered => ROLE = "manager"

\* C9 witness: a planner has opened the approval path.
C9_Witness ==
    /\ ROLE = "planner"
    /\ Rendered("/approval")
    /\ page_content.text = ManagersOnly
    /\ approved = FALSE

\* C10: the store and the status follow the most recent click: an Approve
\* click leaves approved True and "Plan Approved", a Reject click leaves
\* approved False and "Plan Rejected", also after an earlier Approve click.
C10_LastClickWins ==
    [][/\ ClickApprove => (approved' = TRUE /\ approval_status' = "Plan Approved")
       /\ ClickReject => (approved' = FALSE /\ approval_status' = "Plan Rejected")]_vars

====
